---- MODULE Spec2Model ----
(***************************************************************************)
(* State-machine model of the graph explorer front end: AppContent         *)
(* (App.jsx), SearchBar, CategoryToggle, the Graph component and the       *)
(* react-query hooks useGraphData / useSearchPosts.                        *)
(*                                                                         *)
(* Time is counted in minutes.  Null (0) stands for JavaScript null in the *)
(* fields that hold a node or a category; node ids and categories start at *)
(* 1.  Categories are numbered in the order Array.prototype.sort() gives   *)
(* their names, so that "sorted index" is computed as the code does.       *)
(***************************************************************************)
EXTENDS Integers, Sequences, FiniteSets, TLC

VARIABLES
    viewMode,          \* AppContent: useState('topic')
    selectedPost,      \* AppContent: useState(null), id of the clicked node
    searchQuery,       \* AppContent: useState('')
    highlightedNodes,  \* AppContent: useState(new Set())
    sbQuery,           \* SearchBar: useState('') (the text in the input)
    hoveredNode,       \* Graph: useState(null)
    selectedCategory,  \* Graph: useState(null)
    gq,                \* react-query cache, key ['graphData', viewMode]
    sq,                \* react-query cache, key ['search', query, viewMode]
    now,               \* wall clock, minutes
    pendingEffects,    \* passive effects scheduled by the last commit
    canvas,            \* colour painted for each node in the last frame
    lastOp,            \* history: the last user handler that ran
    lastClicked,       \* history: the node of the last handleNodeClick
    burstKeys,         \* history: keystrokes in the current typing burst
    burstReqs,         \* history: search requests issued by those keystrokes
    errAttempts,       \* history: GET requests made by the fetch that failed
    appSidebarWidth,   \* AppContent: useState(384), sidebarWidth
    sidebarWidth,      \* Sidebar: useState(width), pixels
    isResizing,        \* Sidebar: useState(false)
    innerWidth,        \* window.innerWidth, pixels
    forceGraph         \* the graphData prop ForceGraph2D drew its last frame from

vars == <<viewMode, selectedPost, searchQuery, highlightedNodes, sbQuery,
          hoveredNode, selectedCategory, gq, sq, now, pendingEffects, canvas,
          lastOp, lastClicked, burstKeys, burstReqs, errAttempts,
          appSidebarWidth, sidebarWidth, isResizing, innerWidth, forceGraph>>

\* The state of the resizable panel: nothing but the resize handle writes it.
panelVars == <<appSidebarWidth, sidebarWidth, isResizing, innerWidth>>

Null == 0

\* Bounds of the model.
MaxTime == 6
MaxBurst == 2
MaxSearchEntries == 2
MaxWindowUnits == 8

ViewModes == {"topic", "tool", "llm"}

\* Texts the user can have in the search input.
Queries == {"", "a", "ab"}

Range(s) == {s[i] : i \in 1..Len(s)}

-----------------------------------------------------------------------------
\* Server data

Node(id, topics, tools, llms, cluster) ==
    [id |-> id, topics |-> topics, tools |-> tools, llms |-> llms,
     cluster_id |-> cluster]

\* similarity is in hundredths; 0 stands for a missing or zero similarity.
Edge(s, t, similarity) == [source |-> s, target |-> t, similarity |-> similarity]

NoData == [nodes |-> <<>>, edges |-> <<>>]

DataA ==
    [nodes |-> << Node(1, <<1, 2>>, <<1>>, <<>>, 0),
                  Node(2, <<2>>, <<>>, <<1>>, 0),
                  Node(3, <<>>, <<2>>, <<2, 1>>, 1) >>,
     edges |-> << Edge(1, 2, 80), Edge(2, 3, 0), Edge(3, 4, 70) >>]

DataB ==
    [nodes |-> << Node(1, <<3>>, <<2, 1>>, <<1>>, 1),
                  Node(2, <<1, 3>>, <<2>>, <<>>, 0) >>,
     edges |-> << Edge(1, 2, 60) >>]

\* What GET /api/graph-data/{viewMode} answers.
GraphResponses == {DataA}

\* What the Graph component can be handed as its data prop.
GraphProps == {DataA, DataB}

PostIds == {1, 2}

NoResponse == [hasResults |-> FALSE, results |-> {}, count |-> 0]

\* What POST /api/search answers: matches, or a body that has no results
\* field.
SearchResponses ==
    { [hasResults |-> TRUE, results |-> {1}, count |-> 1],
      NoResponse }

-----------------------------------------------------------------------------
\* react-query

SearchStaleTime == 2
DefaultRetry == 1

\* Mutant of StaleTime: the stale time of the search hook.
StaleTime_asSearch == SearchStaleTime

StaleTime == 5

\* Mutant of GraphRetry: the hook's own retry option is lost and the
\* QueryClient default applies.
GraphRetry_clientDefault == DefaultRetry

GraphRetry == 2

\* A query that was never fetched.
NewQuery(nodata) ==
    [status |-> "pending", fetchStatus |-> "idle", hasData |-> FALSE,
     data |-> nodata, dataUpdatedAt |-> 0, failureCount |-> 0]

isStale(q, staleTime, t) == ~q.hasData \/ t - q.dataUpdatedAt >= staleTime

\* Query reducer, action 'fetch'.
StartFetch(q) ==
    [q EXCEPT !.fetchStatus = "fetching", !.failureCount = 0,
              !.status = IF q.hasData THEN q.status ELSE "pending"]

\* An observer turns to the query (mount, or a new query key): the query is
\* fetched when it is enabled, stale and not already being fetched.
Observe(q, enabled, staleTime, t) ==
    IF enabled /\ q.fetchStatus = "idle" /\ isStale(q, staleTime, t)
    THEN StartFetch(q)
    ELSE q

\* Query reducer, action 'success'.
Succeed(q, d, t) ==
    [status |-> "success", fetchStatus |-> "idle", hasData |-> TRUE,
     data |-> d, dataUpdatedAt |-> t, failureCount |-> 0]

\* A request failed: it is retried while failureCount < retry (reducer action
\* 'failed'), and the query ends in error after that (reducer action 'error').
Fail(q, retry) ==
    IF q.failureCount < retry
    THEN [q EXCEPT !.failureCount = @ + 1]
    ELSE [q EXCEPT !.failureCount = @ + 1, !.fetchStatus = "idle",
                   !.status = "error"]

useGraphData(g, mode, t) == Observe(g[mode], TRUE, StaleTime, t)

\* Mutant of SearchEnabled: the enabled option is missing.
SearchEnabled_always(query) == TRUE

SearchEnabled(query) == Len(query) > 0

useSearchPosts(s, query, mode, t) ==
    Observe(s[<<query, mode>>], SearchEnabled(query), SearchStaleTime, t)

SearchKeys == Queries \X ViewModes

\* The search cache is kept to MaxSearchEntries queries.
CacheWithinBound(s) ==
    Cardinality({k \in SearchKeys : s[k] # NewQuery(NoResponse)}) <= MaxSearchEntries

-----------------------------------------------------------------------------
\* AppContent render

\* const { data: searchResults } = useSearchPosts(searchQuery, viewMode)
HasSearchResults(s, query, mode) == s[<<query, mode>>].hasData
SearchResultsOf(s, query, mode) == s[<<query, mode>>].data

\* The screen AppContent returns.
ScreenOf(g, mode) ==
    IF g[mode].status = "error" THEN "error"
    ELSE IF ~g[mode].hasData THEN "loading"
    ELSE "main"

Screen == ScreenOf(gq, viewMode)

\* The components AppContent returns: the error screen, the loading screen, or
\* the page with the Graph (when there is data) and the Sidebar (when a post
\* is selected).
AppContentRender(g, mode, post) ==
    IF g[mode].status = "error" THEN {"ErrorScreen"}
    ELSE IF ~g[mode].hasData THEN {"LoadingScreen"}
    ELSE {"CategoryToggle", "SearchBar"}
         \cup (IF g[mode].hasData THEN {"Graph"} ELSE {})
         \cup (IF post # Null THEN {"Sidebar"} ELSE {})

Rendered == AppContentRender(gq, viewMode, selectedPost)

GraphRendered == "Graph" \in Rendered
SidebarRendered == "Sidebar" \in Rendered
FoundMessageShown ==
    Screen = "main" /\ searchQuery # "" /\ HasSearchResults(sq, searchQuery, viewMode)

\* The effect of App.jsx:34-41.
HighlightEffect(s, query, mode) ==
    IF query # "" /\ HasSearchResults(s, query, mode)
       /\ SearchResultsOf(s, query, mode).hasResults
    THEN SearchResultsOf(s, query, mode).results
    ELSE {}

\* Mutant of HighlightDeps: the dependency array lacks searchResults.
HighlightDeps_queryOnly(s, query, mode) == <<query>>

\* The highlight effect is scheduled when one of its dependencies changed.
HighlightDeps(s, query, mode) ==
    <<query, HasSearchResults(s, query, mode), SearchResultsOf(s, query, mode)>>

ScheduleHighlight(s2, query2, mode2) ==
    IF HighlightDeps(s2, query2, mode2) # HighlightDeps(sq, searchQuery, viewMode)
    THEN {"highlight"}
    ELSE {}

\* SearchBar and Graph live on the main screen only: their state is lost when
\* another screen is returned and starts afresh on the next mount.
Components(screen, query, hovered, category) ==
    /\ sbQuery' = IF screen = "main" THEN query ELSE ""
    /\ hoveredNode' = IF screen = "main" THEN hovered ELSE Null
    /\ selectedCategory' = IF screen = "main" THEN category ELSE Null

Idle == pendingEffects = {}

\* Mutant of resetFilterEffect: the filter survives a change of view mode.
resetFilterEffect_none(pending, category) == category

\* Graph's effect on [viewMode]: setSelectedCategory(null).
resetFilterEffect(pending, category) ==
    IF "resetFilter" \in pending THEN Null ELSE category

-----------------------------------------------------------------------------
\* Graph component

categoryColors ==
    << "#4ECDC4", "#45B7D1", "#96CEB4", "#FFEAA7", "#A29BFE", "#FD79A8",
       "#FDCB6E", "#6C5CE7", "#FAB1A0", "#00B894", "#0984E3", "#D63031",
       "#E17055", "#74B9FF", "#55EFC4", "#FDCB6E", "#A29BFE", "#FD79A8" >>

NodeCategories(node, mode) ==
    IF mode = "topic" THEN node.topics
    ELSE IF mode = "tool" THEN node.tools
    ELSE IF mode = "llm" THEN node.llms
    ELSE <<>>

\* The categories of the legend: every category of every node in this view.
categories(data, mode) ==
    UNION {Range(NodeCategories(data.nodes[i], mode)) : i \in 1..Len(data.nodes)}

\* Map from category to colour: the index of the category among the sorted
\* categories, modulo the palette length.
categoryColorMap(data, mode, category) ==
    LET index == Cardinality({c \in categories(data, mode) : c < category})
    IN  categoryColors[(index % Len(categoryColors)) + 1]

matchingNodeIds(data, mode, category) ==
    IF category = Null THEN {}
    ELSE {data.nodes[i].id : i \in
            {j \in 1..Len(data.nodes) :
                category \in Range(NodeCategories(data.nodes[j], mode))}}

\* Mutant of getNodeColor: the hover test comes before the highlight test.
getNodeColor_hoverFirst(node, data, mode, highlighted, hovered, category) ==
    IF hovered # Null /\ node.id = hovered THEN "#FFA500"
    ELSE IF node.id \in highlighted THEN "#FF6B6B"
    ELSE "#DFE6E9"

getNodeColor(node, data, mode, highlighted, hovered, category) ==
    IF node.id \in highlighted THEN "#FF6B6B"
    ELSE IF hovered # Null /\ node.id = hovered THEN "#FFA500"
    ELSE LET isMatching == category = Null
                           \/ node.id \in matchingNodeIds(data, mode, category)
             cats == NodeCategories(node, mode)
         IN  IF ~isMatching THEN "#D3D3D3"
             ELSE IF Len(cats) > 0 /\ cats[1] \in categories(data, mode)
                  THEN categoryColorMap(data, mode, cats[1])
                  ELSE "#DFE6E9"

GraphData == gq[viewMode].data

NodeIds(data) == {data.nodes[i].id : i \in 1..Len(data.nodes)}

\* The graphData memo: every node of data, and the edges whose two ends are
\* nodes of data, as links whose value is the similarity (0.5 by default).
graphData(data) ==
    LET nodeMap == NodeIds(data)
        valid(edge) == edge.source \in nodeMap /\ edge.target \in nodeMap
        validEdges == SelectSeq(data.edges, valid)
        validLinks == [i \in 1..Len(validEdges) |->
                         [source |-> validEdges[i].source,
                          target |-> validEdges[i].target,
                          value |-> IF validEdges[i].similarity # 0
                                    THEN validEdges[i].similarity ELSE 50]]
    IN  [nodes |-> data.nodes, links |-> validLinks]

\* Mutant of paintNode: a selected category removes the nodes that do not
\* match it, and their links, from what the renderer is handed.
paintNode_matchingOnly ==
    /\ GraphRendered
    /\ LET all == graphData(GraphData)
           match == matchingNodeIds(GraphData, viewMode, selectedCategory)
           keepNode(node) == selectedCategory = Null \/ node.id \in match
           keepLink(link) == selectedCategory = Null
                             \/ (link.source \in match /\ link.target \in match)
       IN  forceGraph' = [nodes |-> SelectSeq(all.nodes, keepNode),
                          links |-> SelectSeq(all.links, keepLink)]
    /\ canvas' = [id \in NodeIds(forceGraph') |->
                    LET node == CHOOSE n \in Range(forceGraph'.nodes) : n.id = id
                    IN  getNodeColor(node, GraphData, viewMode, highlightedNodes,
                                     hoveredNode, selectedCategory)]
    /\ UNCHANGED <<panelVars, lastOp, viewMode, selectedPost, searchQuery,
                   highlightedNodes, sbQuery, hoveredNode, selectedCategory, gq, sq,
                   now, pendingEffects, lastClicked, burstKeys, burstReqs,
                   errAttempts>>

\* One frame of the canvas: ForceGraph2D is handed graphData and paintNode
\* fills every node it was handed with getNodeColor.
paintNode ==
    /\ GraphRendered
    /\ forceGraph' = graphData(GraphData)
    /\ canvas' = [id \in NodeIds(forceGraph') |->
                    LET node == CHOOSE n \in Range(forceGraph'.nodes) : n.id = id
                    IN  getNodeColor(node, GraphData, viewMode, highlightedNodes,
                                     hoveredNode, selectedCategory)]
    /\ UNCHANGED <<panelVars, lastOp, viewMode, selectedPost, searchQuery,
                   highlightedNodes, sbQuery, hoveredNode, selectedCategory, gq, sq,
                   now, pendingEffects, lastClicked, burstKeys, burstReqs,
                   errAttempts>>

handleNodeHover(n) ==
    /\ GraphRendered /\ Idle
    /\ n \in NodeIds(GraphData) \cup {Null}
    /\ n # hoveredNode
    /\ hoveredNode' = n
    /\ UNCHANGED <<panelVars, forceGraph, lastOp, viewMode, selectedPost, searchQuery, highlightedNodes, sbQuery,
                   selectedCategory, gq, sq, now, pendingEffects, canvas,
                   lastClicked, burstKeys, burstReqs, errAttempts>>

\* Click on a legend entry: select the category, or deselect it.
categoryClick(c) ==
    /\ GraphRendered /\ Idle
    /\ c \in categories(GraphData, viewMode)
    /\ selectedCategory' = IF selectedCategory = c THEN Null ELSE c
    /\ lastOp' = "categoryClick"
    /\ UNCHANGED <<panelVars, forceGraph, viewMode, selectedPost, searchQuery, highlightedNodes, sbQuery,
                   hoveredNode, gq, sq, now, pendingEffects, canvas,
                   lastClicked, burstKeys, burstReqs, errAttempts>>

\* The legend's Reset button.
resetCategory ==
    /\ GraphRendered /\ Idle
    /\ selectedCategory # Null
    /\ selectedCategory' = Null
    /\ lastOp' = "resetCategory"
    /\ UNCHANGED <<panelVars, forceGraph, viewMode, selectedPost, searchQuery, highlightedNodes, sbQuery,
                   hoveredNode, gq, sq, now, pendingEffects, canvas,
                   lastClicked, burstKeys, burstReqs, errAttempts>>

-----------------------------------------------------------------------------
\* AppContent handlers

\* handleSearch(query), with the render that follows it: useSearchPosts turns
\* to the key of the new query.
handleSearch(query) ==
    /\ searchQuery' = query
    /\ sq' = IF query = searchQuery THEN sq
             ELSE [sq EXCEPT ![<<query, viewMode>>] =
                       useSearchPosts(sq, query, viewMode, now)]
    /\ CacheWithinBound(sq')
    /\ pendingEffects' = pendingEffects \cup ScheduleHighlight(sq', query, viewMode)

\* Whether the render after handleSearch(query) sends a search request.
IssuesSearch(query) ==
    /\ query # searchQuery
    /\ useSearchPosts(sq, query, viewMode, now) # sq[<<query, viewMode>>]

\* Mutant of handleChange: typing only edits the input, the search waits for
\* the form to be submitted.
handleChange_localOnly(value) ==
    /\ Screen = "main" /\ Idle
    /\ value \in Queries /\ value # sbQuery
    /\ burstKeys < MaxBurst
    /\ sbQuery' = value
    /\ burstKeys' = burstKeys + 1
    /\ lastOp' = "handleChange"
    /\ UNCHANGED <<panelVars, forceGraph, viewMode, selectedPost, searchQuery, highlightedNodes, hoveredNode,
                   selectedCategory, gq, sq, now, pendingEffects, canvas,
                   lastClicked, burstReqs, errAttempts>>

\* SearchBar: the input's onChange.
handleChange(value) ==
    /\ Screen = "main" /\ Idle
    /\ value \in Queries /\ value # sbQuery
    /\ burstKeys < MaxBurst
    /\ sbQuery' = value
    /\ handleSearch(value)
    /\ burstKeys' = burstKeys + 1
    /\ burstReqs' = IF IssuesSearch(value) THEN burstReqs + 1 ELSE burstReqs
    /\ lastOp' = "handleChange"
    /\ UNCHANGED <<panelVars, forceGraph, viewMode, selectedPost, highlightedNodes, hoveredNode,
                   selectedCategory, gq, now, canvas, lastClicked, errAttempts>>

\* Mutant of handleClear: the button empties the input and leaves the search.
handleClear_localOnly ==
    /\ Screen = "main" /\ Idle
    /\ sbQuery # ""
    /\ sbQuery' = ""
    /\ burstKeys' = 0 /\ burstReqs' = 0
    /\ lastOp' = "handleClear"
    /\ UNCHANGED <<panelVars, forceGraph, viewMode, selectedPost, searchQuery, highlightedNodes, hoveredNode,
                   selectedCategory, gq, sq, now, pendingEffects, canvas,
                   lastClicked, errAttempts>>

\* SearchBar: the clear button, rendered while the input is not empty.
handleClear ==
    /\ Screen = "main" /\ Idle
    /\ sbQuery # ""
    /\ sbQuery' = ""
    /\ handleSearch("")
    /\ burstKeys' = 0 /\ burstReqs' = 0
    /\ lastOp' = "handleClear"
    /\ UNCHANGED <<panelVars, forceGraph, viewMode, selectedPost, highlightedNodes, hoveredNode,
                   selectedCategory, gq, now, canvas, lastClicked, errAttempts>>

\* SearchBar: the form's onSubmit.
handleSubmit ==
    /\ Screen = "main" /\ Idle
    /\ handleSearch(sbQuery)
    /\ burstKeys' = 0 /\ burstReqs' = 0
    /\ lastOp' = "handleSubmit"
    /\ UNCHANGED <<panelVars, forceGraph, viewMode, selectedPost, highlightedNodes, sbQuery, hoveredNode,
                   selectedCategory, gq, now, canvas, lastClicked, errAttempts>>

\* The user stops typing: the burst of keystrokes is over.
typingPause ==
    /\ Screen = "main" /\ Idle
    /\ burstKeys > 0
    /\ burstKeys' = 0 /\ burstReqs' = 0
    /\ UNCHANGED <<panelVars, forceGraph, lastOp, viewMode, selectedPost, searchQuery, highlightedNodes, sbQuery,
                   hoveredNode, selectedCategory, gq, sq, now, pendingEffects,
                   canvas, lastClicked, errAttempts>>

\* CategoryToggle's onChange(mode), with the render that follows it: both
\* hooks turn to the keys of the new view mode, and Graph's effect on
\* [viewMode] is scheduled when Graph stays mounted.
handleViewModeChange(mode) ==
    /\ Screen = "main" /\ Idle
    /\ mode \in ViewModes
    /\ viewMode' = mode
    /\ selectedPost' = Null
    /\ gq' = IF mode = viewMode THEN gq
             ELSE [gq EXCEPT ![mode] = useGraphData(gq, mode, now)]
    /\ sq' = IF mode = viewMode THEN sq
             ELSE [sq EXCEPT ![<<searchQuery, mode>>] =
                       useSearchPosts(sq, searchQuery, mode, now)]
    /\ CacheWithinBound(sq')
    /\ Components(ScreenOf(gq', mode), sbQuery, hoveredNode, selectedCategory)
    /\ pendingEffects' =
          ScheduleHighlight(sq', searchQuery, mode)
          \cup (IF mode # viewMode /\ ScreenOf(gq', mode) = "main"
                THEN {"resetFilter"} ELSE {})
    /\ burstKeys' = 0 /\ burstReqs' = 0
    /\ lastOp' = IF mode = viewMode THEN "sameViewMode" ELSE "handleViewModeChange"
    /\ UNCHANGED <<panelVars, forceGraph, searchQuery, highlightedNodes, now, canvas, lastClicked,
                   errAttempts>>

\* Mutant of handleNodeClick: a click is ignored while a post is selected.
handleNodeClick_keepFirst(n) ==
    /\ GraphRendered /\ Idle
    /\ n \in NodeIds(GraphData)
    /\ selectedPost' = IF selectedPost = Null THEN n ELSE selectedPost
    /\ lastClicked' = n
    /\ lastOp' = "handleNodeClick"
    /\ UNCHANGED <<panelVars, forceGraph, viewMode, searchQuery, highlightedNodes, sbQuery, hoveredNode,
                   selectedCategory, gq, sq, now, pendingEffects, canvas,
                   burstKeys, burstReqs, errAttempts>>

handleNodeClick(n) ==
    /\ GraphRendered /\ Idle
    /\ n \in NodeIds(GraphData)
    /\ selectedPost' = n
    /\ lastClicked' = n
    /\ lastOp' = "handleNodeClick"
    /\ UNCHANGED <<panelVars, forceGraph, viewMode, searchQuery, highlightedNodes, sbQuery, hoveredNode,
                   selectedCategory, gq, sq, now, pendingEffects, canvas,
                   burstKeys, burstReqs, errAttempts>>

\* The Sidebar's overlay and its close button.
handleCloseSidebar ==
    /\ SidebarRendered /\ Idle
    /\ selectedPost' = Null
    /\ lastOp' = "handleCloseSidebar"
    /\ UNCHANGED <<panelVars, forceGraph, viewMode, searchQuery, highlightedNodes, sbQuery, hoveredNode,
                   selectedCategory, gq, sq, now, pendingEffects, canvas,
                   lastClicked, burstKeys, burstReqs, errAttempts>>

-----------------------------------------------------------------------------
\* Sidebar: the resize handle.  Widths are in pixels; the windows of the
\* model are multiples of 120 pixels wide, from 360 pixels up, so that 80% of
\* the width is a whole number, and the pointer moves in steps of 20 pixels.

DefaultSidebarWidth == 384

WindowWidths == {120 * k : k \in 3..MaxWindowUnits}

DesktopWidth == 120 * MaxWindowUnits

ClientXs(w) == {20 * j : j \in 0..(w \div 20)}

Max(a, b) == IF a >= b THEN a ELSE b

Min(a, b) == IF a <= b THEN a ELSE b

\* mousedown on the resize handle.
handleResizeStart ==
    /\ SidebarRendered /\ Idle
    /\ ~isResizing
    /\ isResizing' = TRUE
    /\ lastOp' = "handleResizeStart"
    /\ UNCHANGED <<appSidebarWidth, sidebarWidth, innerWidth, forceGraph, viewMode, selectedPost,
                   searchQuery, highlightedNodes, sbQuery, hoveredNode,
                   selectedCategory, gq, sq, now, pendingEffects, canvas,
                   lastClicked, burstKeys, burstReqs, errAttempts>>

\* The width handleMouseMove computes for a pointer at clientX.
constrainedWidth(clientX, windowWidth) ==
    LET newWidth == windowWidth - clientX
        minWidth == 300
        maxWidth == (windowWidth * 8) \div 10
    IN  Max(minWidth, Min(maxWidth, newWidth))

\* mousemove on the document while the handle is held: the listener exists
\* only while isResizing.  AppContent passes onWidthChange={setSidebarWidth}.
handleMouseMove(clientX) ==
    /\ SidebarRendered /\ Idle
    /\ isResizing
    /\ sidebarWidth' = constrainedWidth(clientX, innerWidth)
    /\ appSidebarWidth' = constrainedWidth(clientX, innerWidth)
    /\ lastOp' = "handleMouseMove"
    /\ UNCHANGED <<isResizing, innerWidth, forceGraph, viewMode, selectedPost,
                   searchQuery, highlightedNodes, sbQuery, hoveredNode,
                   selectedCategory, gq, sq, now, pendingEffects, canvas,
                   lastClicked, burstKeys, burstReqs, errAttempts>>

\* mouseup on the document while the handle is held.
handleMouseUp ==
    /\ SidebarRendered /\ Idle
    /\ isResizing
    /\ isResizing' = FALSE
    /\ lastOp' = "handleMouseUp"
    /\ UNCHANGED <<appSidebarWidth, sidebarWidth, innerWidth, forceGraph, viewMode, selectedPost,
                   searchQuery, highlightedNodes, sbQuery, hoveredNode,
                   selectedCategory, gq, sq, now, pendingEffects, canvas,
                   lastClicked, burstKeys, burstReqs, errAttempts>>

-----------------------------------------------------------------------------
\* The passive effects of the last commit: the highlight effect of AppContent
\* and the filter reset of Graph.
runEffects ==
    /\ pendingEffects # {}
    /\ highlightedNodes' =
          IF "highlight" \in pendingEffects
          THEN HighlightEffect(sq, searchQuery, viewMode)
          ELSE highlightedNodes
    /\ selectedCategory' = resetFilterEffect(pendingEffects, selectedCategory)
    /\ pendingEffects' = {}
    /\ UNCHANGED <<panelVars, forceGraph, viewMode, selectedPost, searchQuery, sbQuery, hoveredNode, gq,
                   sq, now, canvas, lastOp, lastClicked, burstKeys, burstReqs,
                   errAttempts>>

-----------------------------------------------------------------------------
\* The network and the clock

\* GET /api/graph-data/{mode} answers.
graphFetchSuccess(mode) ==
    /\ gq[mode].fetchStatus = "fetching"
    /\ \E d \in GraphResponses : gq' = [gq EXCEPT ![mode] = Succeed(gq[mode], d, now)]
    /\ errAttempts' = [errAttempts EXCEPT ![mode] = 0]
    /\ Components(ScreenOf(gq', viewMode), sbQuery, hoveredNode, selectedCategory)
    /\ UNCHANGED <<panelVars, forceGraph, lastOp, viewMode, selectedPost, searchQuery, highlightedNodes, sq, now,
                   pendingEffects, canvas, lastClicked, burstKeys, burstReqs>>

\* GET /api/graph-data/{mode} fails (network error, timeout or error status).
graphFetchFail(mode) ==
    /\ gq[mode].fetchStatus = "fetching"
    /\ gq' = [gq EXCEPT ![mode] = Fail(gq[mode], GraphRetry)]
    /\ errAttempts' = [errAttempts EXCEPT ![mode] =
                          IF gq'[mode].status = "error" /\ gq'[mode].fetchStatus = "idle"
                          THEN gq[mode].failureCount + 1 ELSE @]
    /\ Components(ScreenOf(gq', viewMode), sbQuery, hoveredNode, selectedCategory)
    /\ pendingEffects' = IF ScreenOf(gq', viewMode) = "main" THEN pendingEffects
                         ELSE pendingEffects \ {"resetFilter"}
    /\ burstKeys' = IF ScreenOf(gq', viewMode) = "main" THEN burstKeys ELSE 0
    /\ burstReqs' = IF ScreenOf(gq', viewMode) = "main" THEN burstReqs ELSE 0
    /\ UNCHANGED <<panelVars, forceGraph, lastOp, viewMode, selectedPost, searchQuery, highlightedNodes, sq, now,
                   canvas, lastClicked>>

\* POST /api/search answers.
searchFetchSuccess(key, response) ==
    /\ sq[key].fetchStatus = "fetching"
    /\ sq' = [sq EXCEPT ![key] = Succeed(sq[key], response, now)]
    /\ pendingEffects' = pendingEffects \cup ScheduleHighlight(sq', searchQuery, viewMode)
    /\ UNCHANGED <<panelVars, forceGraph, lastOp, viewMode, selectedPost, searchQuery, highlightedNodes, sbQuery,
                   hoveredNode, selectedCategory, gq, now, canvas, lastClicked,
                   burstKeys, burstReqs, errAttempts>>

\* POST /api/search fails.
searchFetchFail(key) ==
    /\ sq[key].fetchStatus = "fetching"
    /\ sq' = [sq EXCEPT ![key] = Fail(sq[key], DefaultRetry)]
    /\ UNCHANGED <<panelVars, forceGraph, lastOp, viewMode, selectedPost, searchQuery, highlightedNodes, sbQuery,
                   hoveredNode, selectedCategory, gq, now, pendingEffects, canvas,
                   lastClicked, burstKeys, burstReqs, errAttempts>>

\* A minute passes.
tick ==
    /\ Idle
    /\ now < MaxTime
    /\ now' = now + 1
    /\ UNCHANGED <<panelVars, forceGraph, lastOp, viewMode, selectedPost, searchQuery, highlightedNodes, sbQuery,
                   hoveredNode, selectedCategory, gq, sq, pendingEffects, canvas,
                   lastClicked, burstKeys, burstReqs, errAttempts>>

-----------------------------------------------------------------------------
\* Specifications

\* The state after AppContent has mounted: the topic view is being fetched.
Init ==
    /\ viewMode = "topic"
    /\ selectedPost = Null
    /\ searchQuery = ""
    /\ highlightedNodes = {}
    /\ sbQuery = ""
    /\ hoveredNode = Null
    /\ selectedCategory = Null
    /\ gq = [m \in ViewModes |->
               IF m = "topic" THEN StartFetch(NewQuery(NoData)) ELSE NewQuery(NoData)]
    /\ sq = [k \in SearchKeys |-> NewQuery(NoResponse)]
    /\ now = 0
    /\ pendingEffects = {}
    /\ canvas = <<>>
    /\ lastOp = "mount"
    /\ lastClicked = Null
    /\ burstKeys = 0
    /\ burstReqs = 0
    /\ errAttempts = [m \in ViewModes |-> 0]
    /\ appSidebarWidth = DefaultSidebarWidth
    /\ sidebarWidth = appSidebarWidth
    /\ isResizing = FALSE
    /\ innerWidth = DesktopWidth
    /\ forceGraph = [nodes |-> <<>>, links |-> <<>>]

\* Selecting posts and categories across view modes.
Next ==
    \/ \E m \in ViewModes : handleViewModeChange(m)
    \/ \E n \in 1..3 : handleNodeClick(n)
    \/ handleCloseSidebar
    \/ \E n \in 0..3 : handleNodeHover(n)
    \/ \E c \in 1..3 : categoryClick(c)
    \/ resetCategory
    \/ \E m \in ViewModes : graphFetchSuccess(m)
    \/ \E m \in ViewModes : graphFetchFail(m)
    \/ runEffects

Spec == Init /\ [][Next]_vars

\* Searching.
NextSearch ==
    \/ \E v \in Queries : handleChange(v)
    \/ handleClear
    \/ handleSubmit
    \/ typingPause
    \/ \E m \in ViewModes : handleViewModeChange(m)
    \/ \E m \in ViewModes : graphFetchSuccess(m)
    \/ \E k \in SearchKeys : \E r \in SearchResponses : searchFetchSuccess(k, r)
    \/ \E k \in SearchKeys : searchFetchFail(k)
    \/ runEffects

SpecSearch == Init /\ [][NextSearch]_vars

\* Opening and closing the Sidebar while graph data is fetched, cached and
\* refetched over time.
NextSidebar ==
    \/ \E m \in ViewModes : handleViewModeChange(m)
    \/ \E n \in 1..3 : handleNodeClick(n)
    \/ handleCloseSidebar
    \/ \E m \in ViewModes : graphFetchSuccess(m)
    \/ \E m \in ViewModes : graphFetchFail(m)
    \/ tick
    \/ runEffects

SpecSidebar == Init /\ [][NextSidebar]_vars

\* Fetching and caching graph data over time.
NextData ==
    \/ \E m \in ViewModes : handleViewModeChange(m)
    \/ \E m \in ViewModes : graphFetchSuccess(m)
    \/ \E m \in ViewModes : graphFetchFail(m)
    \/ tick
    \/ runEffects

SpecData == Init /\ [][NextData]_vars

\* The Graph component on its own, for every combination of its props.
InitColor ==
    /\ viewMode \in ViewModes
    /\ selectedPost = Null
    /\ searchQuery = ""
    /\ highlightedNodes \in SUBSET {1, 2, 3}
    /\ sbQuery = ""
    /\ hoveredNode = Null
    /\ selectedCategory = Null
    /\ \E d \in GraphProps :
          gq = [m \in ViewModes |->
                  IF m = viewMode THEN Succeed(NewQuery(NoData), d, 0)
                  ELSE NewQuery(NoData)]
    /\ sq = [k \in SearchKeys |-> NewQuery(NoResponse)]
    /\ now = 0
    /\ pendingEffects = {}
    /\ canvas = <<>>
    /\ lastOp = "mount"
    /\ lastClicked = Null
    /\ burstKeys = 0
    /\ burstReqs = 0
    /\ errAttempts = [m \in ViewModes |-> 0]
    /\ appSidebarWidth = DefaultSidebarWidth
    /\ sidebarWidth = appSidebarWidth
    /\ isResizing = FALSE
    /\ innerWidth = DesktopWidth
    /\ forceGraph = [nodes |-> <<>>, links |-> <<>>]

NextColor ==
    \/ \E n \in 0..3 : handleNodeHover(n)
    \/ \E c \in 1..3 : categoryClick(c)
    \/ resetCategory
    \/ paintNode

SpecColor == InitColor /\ [][NextColor]_vars

\* The Sidebar on its own, open on a post, in a window of every width.
InitResize ==
    /\ viewMode = "topic"
    /\ selectedPost \in NodeIds(DataA)
    /\ searchQuery = ""
    /\ highlightedNodes = {}
    /\ sbQuery = ""
    /\ hoveredNode = Null
    /\ selectedCategory = Null
    /\ gq = [m \in ViewModes |->
               IF m = viewMode THEN Succeed(NewQuery(NoData), DataA, 0)
               ELSE NewQuery(NoData)]
    /\ sq = [k \in SearchKeys |-> NewQuery(NoResponse)]
    /\ now = 0
    /\ pendingEffects = {}
    /\ canvas = <<>>
    /\ lastOp = "handleNodeClick"
    /\ lastClicked = selectedPost
    /\ burstKeys = 0
    /\ burstReqs = 0
    /\ errAttempts = [m \in ViewModes |-> 0]
    /\ appSidebarWidth = DefaultSidebarWidth
    /\ sidebarWidth = appSidebarWidth
    /\ isResizing = FALSE
    /\ innerWidth \in WindowWidths
    /\ forceGraph = [nodes |-> <<>>, links |-> <<>>]

NextResize ==
    \/ handleResizeStart
    \/ \E x \in ClientXs(innerWidth) : handleMouseMove(x)
    \/ handleMouseUp

SpecResize == InitResize /\ [][NextResize]_vars

-----------------------------------------------------------------------------
\* Properties

\* The query key useSearchPosts observes in this render.
CurrentSearch == sq[<<searchQuery, viewMode>>]

\* C1 (SpecColor): every frame paints a node whose id is in highlightedNodes
\* in '#FF6B6B', whether or not it is hovered, whether or not a category is
\* selected and whether or not it matches; it paints a hovered node that is
\* not highlighted in '#FFA500'.
C1_HighlightWins ==
    [][paintNode =>
        \A id \in DOMAIN canvas' :
            /\ id \in highlightedNodes => canvas'[id] = "#FF6B6B"
            /\ (id \notin highlightedNodes /\ id = hoveredNode)
                  => canvas'[id] = "#FFA500"]_vars

\* A highlighted node that is hovered and filtered out by the selected
\* category has been painted red.
C1_Witness ==
    \E id \in DOMAIN canvas :
        /\ id \in highlightedNodes
        /\ id = hoveredNode
        /\ selectedCategory # Null
        /\ id \notin matchingNodeIds(GraphData, viewMode, selectedCategory)
        /\ canvas[id] = "#FF6B6B"

\* C2 (SpecSearch): once the effects have run, highlightedNodes is the set of
\* ids of searchResults.results when the query is not empty and its results
\* are there, and empty otherwise (empty query, results not loaded, response
\* without results).
C2_HighlightedAreResults ==
    Idle =>
        highlightedNodes =
            IF searchQuery # "" /\ CurrentSearch.hasData /\ CurrentSearch.data.hasResults
            THEN CurrentSearch.data.results
            ELSE {}

\* The results of a non-empty query are highlighted.
C2_Witness ==
    /\ Idle
    /\ searchQuery # ""
    /\ CurrentSearch.hasData
    /\ highlightedNodes = {1}

\* C3 (SpecSearch): after a keystroke, and until the next user action,
\* AppContent.searchQuery is the text in the input; no submit is needed.
C3_RealTimeSearch ==
    (lastOp = "handleChange" /\ "SearchBar" \in Rendered) => searchQuery = sbQuery

\* Two keystrokes in a row have been typed and the search follows them.
C3_Witness ==
    /\ lastOp = "handleChange"
    /\ burstKeys = 2
    /\ sbQuery = "ab"
    /\ searchQuery = "ab"

\* C4 (SpecSearch): search is debounced: a burst of consecutive keystrokes
\* does not issue one search request per keystroke.
C4_Debounced == burstKeys >= 2 => burstReqs < burstKeys

\* C5 (SpecSearch): no request to api.searchPosts is ever issued with an empty
\* query: the queries with the empty string stay unfetched in every view mode.
C5_NoEmptySearch ==
    \A m \in ViewModes : sq[<<"", m>>] = NewQuery(NoResponse)

\* The user has searched, emptied the query and changed the view mode.
C5_Witness ==
    /\ searchQuery = ""
    /\ lastOp = "handleViewModeChange"
    /\ \E k \in SearchKeys : sq[k].hasData

\* C6 (SpecSearch): after handleClear, and until the next user action, the
\* input and AppContent.searchQuery are empty, and once the effects have run
\* no node is highlighted and the 'Found N result(s)' message is gone.
C6_ClearResets ==
    lastOp = "handleClear" =>
        /\ sbQuery = ""
        /\ searchQuery = ""
        /\ Idle => (highlightedNodes = {} /\ ~FoundMessageShown)

\* The search was cleared while results of the query were there.
C6_Witness ==
    /\ lastOp = "handleClear"
    /\ Idle
    /\ \E q \in Queries :
          /\ sq[<<q, viewMode>>].hasData
          /\ sq[<<q, viewMode>>].data.results = {1}

\* C7 (Spec): the view mode is one of 'topic', 'tool', 'llm', 'topic' at the
\* start; after a change of view mode, once the effects have run and until
\* the next user action, no post is selected and no category is selected.
C7_ViewModeChangeResets ==
    /\ viewMode \in {"topic", "tool", "llm"}
    /\ lastOp = "mount" => viewMode = "topic"
    /\ (lastOp = "handleViewModeChange" /\ Idle) =>
          (selectedPost = Null /\ selectedCategory = Null)

\* The view mode was changed to a cached view with the Graph staying mounted
\* (the hovered node is still there), after a node had been clicked.
C7_Witness ==
    /\ lastOp = "handleViewModeChange"
    /\ Idle
    /\ hoveredNode # Null
    /\ lastClicked # Null
    /\ viewMode # "topic"

\* C8 (SpecSidebar): the Sidebar is rendered exactly when a post is selected
\* and AppContent returns the main screen (no error, not loading); after
\* handleNodeClick the selected post is the clicked node, after
\* handleCloseSidebar there is none, and the selected post is always the node
\* clicked last.
C8_SidebarShowsClicked ==
    /\ SidebarRendered <=>
          (selectedPost # Null /\ gq[viewMode].status # "error" /\ gq[viewMode].hasData)
    /\ lastOp = "handleNodeClick" => (selectedPost = lastClicked /\ selectedPost # Null)
    /\ lastOp = "handleCloseSidebar" => (selectedPost = Null /\ ~SidebarRendered)
    /\ selectedPost # Null => selectedPost = lastClicked

\* A node was clicked in the tool view and the Sidebar shows it.
C8_Witness ==
    /\ lastOp = "handleNodeClick"
    /\ SidebarRendered
    /\ selectedPost = 2
    /\ viewMode = "tool"

\* C9 (SpecData): changing to a view mode whose data was fetched less than 5
\* minutes ago sends no request (the cache entry is left as it is) and shows
\* the main screen.
C9_FreshCacheNoRefetch ==
    [][\A m \in ViewModes :
          (/\ handleViewModeChange(m)
           /\ m # viewMode
           /\ gq[m].hasData
           /\ now - gq[m].dataUpdatedAt < 5)
          => (gq' = gq /\ "Graph" \in Rendered')]_vars

\* The view mode has just been changed (Graph's effect is still pending, and
\* no minute has passed since) to a view whose data is 1 to 4 minutes old.
C9_Witness ==
    /\ lastOp = "handleViewModeChange"
    /\ pendingEffects = {"resetFilter"}
    /\ gq[viewMode].hasData
    /\ gq[viewMode].fetchStatus = "idle"
    /\ now - gq[viewMode].dataUpdatedAt >= 1
    /\ now - gq[viewMode].dataUpdatedAt < 5

\* C10 (SpecData): a view mode is in error only after a fetch whose 3 requests
\* (the first and 2 retries) all failed, and when a request for the current
\* view mode succeeds the graph is shown.
C10_ErrorAfterThreeAttempts ==
    /\ [](\A m \in ViewModes : gq[m].status = "error" => errAttempts[m] = 3)
    /\ [][\A m \in ViewModes :
            (graphFetchSuccess(m) /\ m = viewMode) => "Graph" \in Rendered']_vars

\* The error screen is shown after three failed requests.
C10_Witness ==
    /\ "ErrorScreen" \in Rendered
    /\ gq[viewMode].failureCount = 3
    /\ errAttempts[viewMode] = 3

\* C11 (SpecColor): every frame paints two nodes that carry the same
\* cluster_id, and that are neither highlighted, hovered nor filtered out by
\* the selected category, in the same colour: the colour of such a node is
\* a function of its cluster_id.
C11_ColourByCluster ==
    [][paintNode =>
        \A a, b \in Range(GraphData.nodes) :
            LET Plain(node) ==
                    /\ node.id \notin highlightedNodes
                    /\ node.id # hoveredNode
                    /\ (selectedCategory # Null =>
                          node.id \in matchingNodeIds(GraphData, viewMode,
                                                      selectedCategory))
            IN  (a.cluster_id = b.cluster_id /\ Plain(a) /\ Plain(b))
                    => canvas'[a.id] = canvas'[b.id]]_vars

\* C12 (SpecResize): the width handleMouseMove sets, and reports to
\* AppContent through onWidthChange, is at least 300 pixels and at most 80%
\* of window.innerWidth, for every window width and every pointer position.
C12_WidthConstrained ==
    lastOp = "handleMouseMove" =>
        /\ 300 <= sidebarWidth
        /\ 10 * sidebarWidth <= 8 * innerWidth
        /\ appSidebarWidth = sidebarWidth

\* C13 (SpecColor): in every frame, whatever selectedCategory is (null
\* included), the node list handed to the force-graph renderer is exactly
\* data.nodes, every node is painted, and the link list is the one of the
\* frame before: selecting a category changes no list, only colours.
C13_FilterKeepsAllNodes ==
    [][paintNode =>
        /\ forceGraph'.nodes = GraphData.nodes
        /\ DOMAIN canvas' = NodeIds(GraphData)
        /\ (DOMAIN canvas # {} => forceGraph'.links = forceGraph.links)]_vars

\* A frame drawn while a category was selected that one node does not
\* match: the node is in the list handed to the renderer and is painted
\* grey, and the links are those between nodes of data.
C13_Witness ==
    /\ selectedCategory # Null
    /\ forceGraph.nodes = GraphData.nodes
    /\ \E id \in DOMAIN canvas :
          /\ id \notin matchingNodeIds(GraphData, viewMode, selectedCategory)
          /\ canvas[id] = "#D3D3D3"
    /\ Len(forceGraph.links) > 0
    /\ Len(forceGraph.links) < Len(GraphData.edges)

=============================================================================
